---- MODULE Spec2Model ----
(***************************************************************************)
(* quickstruct: field types and their byte codec (common.py), the struct  *)
(* class built on them (quickstruct.py), field records (field.py) and the *)
(* layout builders (struct_builder.py).                                   *)
(*                                                                         *)
(* Conventions of the model                                                *)
(*  - a field type is a record; "oid" is the identity of the Python class *)
(*    object (0 for the module-level primitives, one fresh number per     *)
(*    evaluation of String[k], E[k], ptr[E], ref[E]);                      *)
(*  - a Python value is a tagged record (py |-> "int" | "str" | ...);     *)
(*  - bytes are sequences over 0..255, texts are sequences of code points *)
(*    below 2048 (one- and two-byte UTF-8 forms);                          *)
(*  - a call returns Ok(..)/Val(..) or Raise(exception name);             *)
(*  - size, alignment and is_dynamic_size are read as the classmethods of *)
(*    common.py wherever struct_builder.py reads field.type.size,         *)
(*    field.type._size() and the like.                                     *)
(***************************************************************************)
EXTENDS Integers, Sequences, FiniteSets, TLC

Min(a, b) == IF a < b THEN a ELSE b
Max(a, b) == IF a > b THEN a ELSE b

\* ------------------------------------------------------------------------
\* Outcomes of calls
\* ------------------------------------------------------------------------
Ok(b) == [ok |-> TRUE, bytes |-> b]
Val(v, p) == [ok |-> TRUE, val |-> v, pos |-> p]
Raise(e) == [ok |-> FALSE, exc |-> e]

\* ------------------------------------------------------------------------
\* Python values
\* ------------------------------------------------------------------------
PyInt(i) == [py |-> "int", i |-> i]
PyStr(s) == [py |-> "str", s |-> s]
PyBytes(b) == [py |-> "bytes", b |-> b]
PyList(l) == [py |-> "list", l |-> l]
PyFloat(f) == [py |-> "float", f |-> f]
PyNone == [py |-> "None"]
Unset == [py |-> "unset"]

\* ------------------------------------------------------------------------
\* struct module: formats, pack, unpack (native = little-endian, standard
\* sizes of the x86-64 build)
\* ------------------------------------------------------------------------
calcsize(fmt) ==
  CASE fmt \in {"b", "B", "c", "x"} -> 1
    [] fmt \in {"h", "H"} -> 2
    [] fmt \in {"i", "I", "f"} -> 4
    [] fmt \in {"q", "Q", "d", "P"} -> 8

\* Range accepted by pack for an integer format.  Model integers are below
\* 2^31 in magnitude, so the 4- and 8-byte formats only check the sign.
in_range(fmt, v) ==
  CASE fmt = "b" -> v \in -128..127
    [] fmt = "B" -> v \in 0..255
    [] fmt = "h" -> v \in -32768..32767
    [] fmt = "H" -> v \in 0..65535
    [] fmt \in {"i", "q"} -> TRUE
    [] fmt \in {"I", "Q", "P"} -> v >= 0

RECURSIVE le_bytes(_, _)
le_bytes(v, w) == IF w = 0 THEN <<>> ELSE <<v % 256>> \o le_bytes(v \div 256, w - 1)

RECURSIVE le_uint(_)
le_uint(b) == IF b = <<>> THEN 0 ELSE Head(b) + 256 * le_uint(Tail(b))

RECURSIVE le_sint(_)
le_sint(b) ==
  IF Len(b) = 1 THEN (IF b[1] >= 128 THEN b[1] - 256 ELSE b[1])
  ELSE Head(b) + 256 * le_sint(Tail(b))

zeros(n) == [i \in 1..n |-> 0]

\* Struct(fmt).pack(v) for the one-value formats.
Struct_pack(fmt, v) ==
  IF fmt = "c"
  THEN IF v.py = "bytes" /\ Len(v.b) = 1 THEN Ok(v.b) ELSE Raise("struct.error")
  ELSE IF v.py = "int" /\ in_range(fmt, v.i)
       THEN Ok(le_bytes(v.i, calcsize(fmt)))
       ELSE Raise("struct.error")

\* Struct(fmt).unpack(b)[0] for the one-value formats.
Struct_unpack(fmt, b) ==
  IF Len(b) # calcsize(fmt) THEN Raise("struct.error")
  ELSE IF fmt = "c" THEN [ok |-> TRUE, val |-> PyBytes(b)]
  ELSE IF fmt \in {"b", "h", "i", "q"} THEN [ok |-> TRUE, val |-> PyInt(le_sint(b))]
  ELSE [ok |-> TRUE, val |-> PyInt(le_uint(b))]

\* Struct("<n>s").pack(b): b cut or NUL-filled to exactly n bytes.
pack_s(n, b) == [i \in 1..n |-> IF i <= Len(b) THEN b[i] ELSE 0]

\* str.encode() / bytes.decode(): UTF-8
encode_char(c) == IF c < 128 THEN <<c>> ELSE <<192 + (c \div 64), 128 + (c % 64)>>

RECURSIVE str_encode(_)
str_encode(s) == IF s = <<>> THEN <<>> ELSE encode_char(Head(s)) \o str_encode(Tail(s))

RECURSIVE bytes_decode(_)
bytes_decode(b) ==
  IF b = <<>> THEN [ok |-> TRUE, val |-> <<>>]
  ELSE IF b[1] < 128
  THEN LET r == bytes_decode(Tail(b))
       IN IF r.ok THEN [ok |-> TRUE, val |-> <<b[1]>> \o r.val] ELSE r
  ELSE IF b[1] \in 194..223 /\ Len(b) >= 2 /\ b[2] \in 128..191
  THEN LET r == bytes_decode(Tail(Tail(b)))
       IN IF r.ok THEN [ok |-> TRUE, val |-> <<(b[1] - 192) * 64 + (b[2] - 128)>> \o r.val]
          ELSE r
  ELSE Raise("UnicodeDecodeError")

\* BytesIO.read(n) at cursor pos (pos = bytes already consumed)
read(data, pos, n) ==
  IF n < 0 THEN SubSeq(data, pos + 1, Len(data))
  ELSE SubSeq(data, pos + 1, Min(pos + n, Len(data)))

\* ------------------------------------------------------------------------
\* common.py: the field types
\* ------------------------------------------------------------------------
_primitive(name, fmt, typ, alignment) ==
  [kind |-> "Primitive", name |-> name, fmt |-> fmt, count |-> 1, pytype |-> typ,
   align |-> alignment, oid |-> 0]

i8 == _primitive("i8", "b", "int", 1)
u8 == _primitive("u8", "B", "int", 1)
i16 == _primitive("i16", "h", "int", 2)
u16 == _primitive("u16", "H", "int", 2)
i32 == _primitive("i32", "i", "int", 4)
u32 == _primitive("u32", "I", "int", 4)
i64 == _primitive("i64", "q", "int", 8)
u64 == _primitive("u64", "Q", "int", 8)
f32 == _primitive("f32", "f", "float", 4)
f64 == _primitive("f64", "d", "float", 8)
anyptr == _primitive("anyptr", "P", "int", 8)
char == _primitive("char", "c", "bytes", 1)

\* class String: __length__ = None is the length-prefixed string (0 here:
\* the code tests the length with "not cls.__length__")
String == [kind |-> "String", length |-> 0, oid |-> 0]
\* String[item]
String_getitem(item, oid) == [kind |-> "String", length |-> item, oid |-> oid]
\* E[length]
_array(element_type, length, oid) ==
  [kind |-> "Array", elem |-> element_type, length |-> length, oid |-> oid]
\* Array[E]
Array_getitem(item, oid) == [kind |-> "Array", elem |-> item, length |-> 0, oid |-> oid]
\* ptr[E], ref[E]
_pointer(element_type, oid) ==
  [kind |-> "Pointer", elem |-> element_type, fmt |-> "P", count |-> 1, align |-> 4,
   oid |-> oid]
_reference(element_type, oid) ==
  [kind |-> "Reference", elem |-> element_type, fmt |-> "P", count |-> 1, align |-> 4,
   oid |-> oid]
\* Padding[item]: __struct__ = Struct("<item>x")
Padding_getitem(item, oid) ==
  [kind |-> "Padding", fmt |-> "x", count |-> item, align |-> 1, oid |-> oid]

\* cls.__struct__.size
struct_size(t) == t.count * calcsize(t.fmt)

Primitive_size(t) == struct_size(t)
String_size(t) == IF t.length # 0 THEN t.length ELSE -1
Array_size(t) == IF t.length # 0 THEN t.length ELSE -1

type_size(t) ==
  CASE t.kind = "String" -> String_size(t)
    [] t.kind = "Array" -> Array_size(t)
    [] OTHER -> Primitive_size(t)

type_is_dynamic_size(t) == type_size(t) = -1

Primitive_alignment(t) == t.align
String_alignment(t) == 1

RECURSIVE type_alignment(_)
Array_alignment(t) == type_alignment(t.elem)
type_alignment(t) ==
  CASE t.kind = "String" -> String_alignment(t)
    [] t.kind = "Array" -> Array_alignment(t)
    [] OTHER -> Primitive_alignment(t)

\* ------------------------------------------------------------------------
\* common.py: to_bytes
\* ------------------------------------------------------------------------
\* for value in values
items(values) ==
  CASE values.py = "list" -> values.l
    [] values.py = "str" -> [i \in 1..Len(values.s) |-> PyStr(<<values.s[i]>>)]
    [] values.py = "bytes" -> [i \in 1..Len(values.b) |-> PyInt(values.b[i])]

iterable(values) == values.py \in {"list", "str", "bytes"}

Primitive_to_bytes(t, data) == Struct_pack(t.fmt, data)

Padding_to_bytes(t, data) == Ok(zeros(struct_size(t)))

String_to_bytes(t, data) ==
  IF t.length = 0
  THEN IF ~iterable(data) THEN Raise("TypeError")
       ELSE IF data.py # "str" THEN Raise("AttributeError")
       ELSE Ok(le_bytes(Len(data.s), 4) \o pack_s(Len(data.s), str_encode(data.s)))
  ELSE IF data.py # "str" THEN Raise("AttributeError")
       ELSE Ok(pack_s(t.length, str_encode(data.s)))

Pointer_to_bytes(t, value) == Struct_pack(t.fmt, value)

Reference_to_bytes(t, value) == Struct_pack(t.fmt, value)

RECURSIVE type_to_bytes(_, _)
RECURSIVE join_to_bytes(_, _)
\* b"".join(element_type.to_bytes(value) for value in values)
join_to_bytes(t, vs) ==
  IF vs = <<>> THEN Ok(<<>>)
  ELSE LET h == type_to_bytes(t, Head(vs))
       IN IF ~h.ok THEN h
          ELSE LET r == join_to_bytes(t, Tail(vs))
               IN IF ~r.ok THEN r ELSE Ok(h.bytes \o r.bytes)

Array_to_bytes(t, values) ==
  IF ~iterable(values) THEN Raise("TypeError")
  ELSE IF t.length # 0 /\ Len(items(values)) # t.length THEN Raise("ValueError")
  ELSE LET result == join_to_bytes(t.elem, items(values))
       IN IF ~result.ok THEN result
          ELSE IF t.length = 0
               THEN Ok(le_bytes(Len(items(values)), 4) \o result.bytes)
               ELSE result

type_to_bytes(t, data) ==
  CASE t.kind = "Primitive" -> Primitive_to_bytes(t, data)
    [] t.kind = "Padding" -> Padding_to_bytes(t, data)
    [] t.kind = "String" -> String_to_bytes(t, data)
    [] t.kind = "Array" -> Array_to_bytes(t, data)
    [] t.kind = "Pointer" -> Pointer_to_bytes(t, data)
    [] t.kind = "Reference" -> Reference_to_bytes(t, data)

\* ------------------------------------------------------------------------
\* common.py: from_bytes over a reader (data, pos)
\* ------------------------------------------------------------------------
Primitive_from_bytes(t, data, pos) ==
  LET chunk == read(data, pos, struct_size(t))
      u == Struct_unpack(t.fmt, chunk)
  IN IF u.ok THEN Val(u.val, pos + Len(chunk)) ELSE u

\* Struct("<k>x").unpack(..) is the empty tuple; [0] on it raises
Padding_from_bytes(t, data, pos) ==
  LET chunk == read(data, pos, struct_size(t))
  IN IF Len(chunk) # struct_size(t) THEN Raise("struct.error") ELSE Raise("IndexError")

String_from_bytes(t, data, pos) ==
  LET hdr == read(data, pos, 4)
      u == Struct_unpack("i", hdr)
      length == IF t.length # 0 THEN t.length ELSE u.val.i
      start == IF t.length # 0 THEN pos ELSE pos + Len(hdr)
      chunk == read(data, start, length)
      d == bytes_decode(chunk)
  IN IF t.length = 0 /\ ~u.ok THEN u
     ELSE IF d.ok THEN Val(PyStr(d.val), start + Len(chunk)) ELSE d

RECURSIVE type_from_bytes(_, _, _)
RECURSIVE read_elems(_, _, _, _)
\* [element_type.from_bytes(data) for _ in range(length)]
read_elems(t, data, pos, n) ==
  IF n <= 0 THEN Val(<<>>, pos)
  ELSE LET h == type_from_bytes(t, data, pos)
       IN IF ~h.ok THEN h
          ELSE LET r == read_elems(t, data, h.pos, n - 1)
               IN IF ~r.ok THEN r ELSE Val(<<h.val>> \o r.val, r.pos)

Array_from_bytes(t, data, pos) ==
  LET hdr == read(data, pos, 4)
      u == Struct_unpack("i", hdr)
      length == IF t.length # 0 THEN t.length ELSE u.val.i
      start == IF t.length # 0 THEN pos ELSE pos + Len(hdr)
      r == read_elems(t.elem, data, start, length)
  IN IF t.length = 0 /\ ~u.ok THEN u
     ELSE IF r.ok THEN Val(PyList(r.val), r.pos) ELSE r

Pointer_from_bytes(t, data, pos) == type_from_bytes(t.elem, data, pos)

Reference_from_bytes(t, data, pos) == type_from_bytes(t.elem, data, pos)

type_from_bytes(t, data, pos) ==
  CASE t.kind = "Primitive" -> Primitive_from_bytes(t, data, pos)
    [] t.kind = "Padding" -> Padding_from_bytes(t, data, pos)
    [] t.kind = "String" -> String_from_bytes(t, data, pos)
    [] t.kind = "Array" -> Array_from_bytes(t, data, pos)
    [] t.kind = "Pointer" -> Pointer_from_bytes(t, data, pos)
    [] t.kind = "Reference" -> Reference_from_bytes(t, data, pos)

\* ------------------------------------------------------------------------
\* common.py: isinstance(value, type) through TypeMeta.__instancecheck__
\* ------------------------------------------------------------------------
Answer(b) == [ok |-> TRUE, val |-> b]

\* Pointer, Reference and Padding inherit this method but define no __type__
Primitive_is_instance(t, instance) ==
  IF t.kind = "Primitive" THEN Answer(instance.py = t.pytype) ELSE Raise("AttributeError")

String_is_instance(t, instance) == Answer(instance.py = "str")

RECURSIVE is_instance(_, _)
RECURSIVE all_is_instance(_, _)
all_is_instance(t, vs) ==
  IF vs = <<>> THEN Answer(TRUE)
  ELSE LET h == is_instance(t, Head(vs))
       IN IF ~h.ok \/ ~h.val THEN h ELSE all_is_instance(t, Tail(vs))

Array_is_instance(t, instance) ==
  IF ~iterable(instance) THEN Raise("TypeError")
  ELSE all_is_instance(t.elem, items(instance))

is_instance(t, instance) ==
  CASE t.kind = "String" -> String_is_instance(t, instance)
    [] t.kind = "Array" -> Array_is_instance(t, instance)
    [] OTHER -> Primitive_is_instance(t, instance)

\* ------------------------------------------------------------------------
\* quickstruct.py: DataStruct.  __fields__ is an insertion-ordered dict,
\* modelled as a sequence of [name, type] entries with distinct names; an
\* instance is the map from attribute name to value (Unset: never assigned).
\* ------------------------------------------------------------------------
dict_index(d, k) ==
  IF \E i \in 1..Len(d) : d[i].name = k THEN CHOOSE i \in 1..Len(d) : d[i].name = k ELSE 0

\* a dict whose assignment moves a present key to the end
dict_setitem_move(d, k, v) ==
  Append(SelectSeq(d, LAMBDA e : e.name # k), v)

\* d[k] = v: a present key keeps its place, a new key goes to the end
dict_setitem(d, k, v) ==
  IF dict_index(d, k) # 0 THEN [d EXCEPT ![dict_index(d, k)] = v] ELSE Append(d, v)

RECURSIVE dict_update(_, _)
dict_update(d, other) ==
  IF other = <<>> THEN d
  ELSE dict_update(dict_setitem(d, Head(other).name, Head(other)), Tail(other))

RECURSIVE update_all(_, _)
update_all(d, bases) ==
  IF bases = <<>> THEN d ELSE update_all(dict_update(d, Head(bases)), Tail(bases))

\* DataStruct.__init_subclass__: bases is the sequence of the bases'
\* __fields__, annotations the class body's annotations in source order
DataStruct_init_subclass(bases, annotations) ==
  dict_update(update_all(<<>>, bases), annotations)

FieldNames == {"a", "b", "c"}

NewInstance == [n \in FieldNames |-> Unset]

RECURSIVE DataStruct_init_loop(_, _, _)
DataStruct_init_loop(fields, self, kwargs) ==
  IF kwargs = <<>> THEN [ok |-> TRUE, val |-> self]
  ELSE LET name == Head(kwargs).name
           value == Head(kwargs).value
           i == dict_index(fields, name)
           chk == is_instance(fields[i].type, value)
       IN IF i = 0 THEN Raise("TypeError")
          ELSE IF ~chk.ok THEN chk
          ELSE IF ~chk.val THEN Raise("TypeError")
          ELSE DataStruct_init_loop(fields, [self EXCEPT ![name] = value], Tail(kwargs))

\* DataStruct.__init__(**kwargs)
DataStruct_init(fields, kwargs) == DataStruct_init_loop(fields, NewInstance, kwargs)

\* getattr(self, field, None)
getattr_or_None(self, field) == IF self[field] = Unset THEN PyNone ELSE self[field]

RECURSIVE DataStruct_join(_, _)
DataStruct_join(fields, self) ==
  IF fields = <<>> THEN Ok(<<>>)
  ELSE LET h == type_to_bytes(Head(fields).type, getattr_or_None(self, Head(fields).name))
       IN IF ~h.ok THEN h
          ELSE LET r == DataStruct_join(Tail(fields), self)
               IN IF ~r.ok THEN r ELSE Ok(h.bytes \o r.bytes)

\* DataStruct.to_bytes
DataStruct_to_bytes(fields, self) ==
  LET r == DataStruct_join(fields, self)
  IN IF ~r.ok /\ r.exc = "AttributeError" THEN Raise("ValueError") ELSE r

RECURSIVE DataStruct_from_bytes_loop(_, _, _, _)
DataStruct_from_bytes_loop(fields, result, data, pos) ==
  IF fields = <<>> THEN Val(result, pos)
  ELSE LET value == type_from_bytes(Head(fields).type, data, pos)
       IN IF ~value.ok THEN value
          ELSE DataStruct_from_bytes_loop(Tail(fields),
                 [result EXCEPT ![Head(fields).name] = value.val], data, value.pos)

\* DataStruct.from_bytes
DataStruct_from_bytes(fields, data) ==
  DataStruct_from_bytes_loop(fields, NewInstance, data, 0)

\* ------------------------------------------------------------------------
\* Python int operators used on flags and offsets
\* ------------------------------------------------------------------------
RECURSIVE BitAnd(_, _)
\* x & y on two's-complement integers of unbounded width
BitAnd(x, y) ==
  IF y = 0 THEN 0
  ELSE IF y = -1 THEN x
  ELSE (x % 2) * (y % 2) + 2 * BitAnd(x \div 2, y \div 2)

\* x | y for x, y >= 0
BitOr(x, y) == x + y - BitAnd(x, y)

\* x & ~y for x, y >= 0
BitClear(x, y) == x - BitAnd(x, y)

\* 1 << n
ShiftLeft1(n) == 2 ^ n

\* None where the code takes an int or None
None == -1

\* ------------------------------------------------------------------------
\* field.py
\* ------------------------------------------------------------------------
FieldFlags_NONE == 0
FieldFlags_Protected == ShiftLeft1(0)

\* StructField(typ).__set__(instance, value): the value is kept on the instance
\* under the field's own attribute name
StructField_set(typ, instance, name, value) ==
  LET chk == is_instance(typ, value)
  IN IF ~chk.ok THEN chk
     ELSE IF ~chk.val THEN Raise("TypeError")
     ELSE [ok |-> TRUE, val |-> [instance EXCEPT ![name] = value]]

\* FieldInfo.__init__ : the object, stored in the heap under its identity
FieldInfo(name, typ, flags) == [name |-> name, type |-> typ, offset |-> 0, flags |-> flags]

\* FieldInfo.is_protected (an int, used for its truth value)
\* a test of the wrong bit
is_protected_wrong_bit(field) == BitAnd(field.flags, ShiftLeft1(1))

is_protected(field) == BitAnd(field.flags, FieldFlags_Protected)

\* ------------------------------------------------------------------------
\* struct_builder.py: StructFlags
\* ------------------------------------------------------------------------
Align1Byte == 0
Align2Bytes == ShiftLeft1(0)
Align4Bytes == ShiftLeft1(1)
Align8Bytes == ShiftLeft1(2)
AlignAuto == ShiftLeft1(3)
NoAlignment == ShiftLeft1(4)
ReorderFields == ShiftLeft1(5)
AllowOverride == ShiftLeft1(9)
TypeSafeOverride == BitOr(ShiftLeft1(10), AllowOverride)
FixedSize == ShiftLeft1(11)
Protected == ShiftLeft1(14)
Final == ShiftLeft1(15)
AlignmentMask == BitOr(BitOr(BitOr(Align1Byte, Align2Bytes), Align4Bytes), Align8Bytes)
Default == BitOr(AllowOverride, AlignAuto)

\* ------------------------------------------------------------------------
\* struct_builder.py: StructBuilder.  heap is the store of FieldInfo objects
\* (index = identity); _fields is a list of identities.  Every method maps
\* (heap, self) to [heap, self, exc].
\* ------------------------------------------------------------------------
Done(heap, self) == [heap |-> heap, self |-> self, exc |-> "none"]
Fail(heap, self, e) == [heap |-> heap, self |-> self, exc |-> e]

StructBuilder_init ==
  [cls |-> "StructBuilder", _fields |-> <<>>, _size |-> 0, _has_dynamic_fields |-> FALSE]

\* add_field(field: FieldInfo)
StructBuilder_add_field_info(heap, self, field) ==
  Done(heap, [self EXCEPT !._has_dynamic_fields = @ \/ type_is_dynamic_size(heap[field].type),
                          !._fields = Append(@, field)])

\* add_field(field: str, typ)
StructBuilder_add_field(heap, self, name, typ) ==
  StructBuilder_add_field_info(Append(heap, FieldInfo(name, typ, FieldFlags_NONE)), self,
                               Len(heap) + 1)

StructBuilder_is_dynamic_size(self) == self._has_dynamic_fields \/ self._size = -1

\* padding computed from the offset instead of its negation
StructBuilder_get_padding_unnegated(alignment, offset) == BitAnd(offset, alignment - 1)

StructBuilder_get_padding(alignment, offset) == BitAnd(0 - offset, alignment - 1)

\* _pad_format.format(n)
StructBuilder_pad_name(n) == "__pad_" \o ToString(n) \o "__"

RECURSIVE StructBuilder_by_alignment_loop(_, _, _, _, _, _)
StructBuilder_by_alignment_loop(heap, todo, result, paddings, offset, alignment) ==
  IF todo = <<>> THEN [heap |-> heap, result |-> result]
  ELSE LET field == Head(todo)
           padding == StructBuilder_get_padding(alignment, offset)
           heap1 == IF padding # 0
                    THEN Append(heap, FieldInfo(StructBuilder_pad_name(paddings),
                                                Padding_getitem(padding, 0), FieldFlags_NONE))
                    ELSE heap
           result1 == IF padding # 0 THEN Append(result, Len(heap1)) ELSE result
           paddings1 == IF padding # 0 THEN paddings + 1 ELSE paddings
       IN StructBuilder_by_alignment_loop(heap1, Tail(todo), Append(result1, field),
            paddings1, offset + type_size(heap[field].type) + padding, alignment)

StructBuilder_align_fields_by_alignment(heap, self, alignment) ==
  LET r == StructBuilder_by_alignment_loop(heap, self._fields, <<>>, 0, 0, alignment)
  IN Done(r.heap, [self EXCEPT !._fields = r.result])

RECURSIVE StructBuilder_by_type_loop(_, _, _, _, _)
StructBuilder_by_type_loop(heap, todo, result, paddings, offset) ==
  IF todo = <<>> THEN [heap |-> heap, result |-> result]
  ELSE LET field == Head(todo)
           padding == StructBuilder_get_padding(type_alignment(heap[field].type), offset)
           heap1 == IF padding # 0
                    THEN Append(heap, FieldInfo(StructBuilder_pad_name(paddings),
                                                Padding_getitem(padding, 0), FieldFlags_NONE))
                    ELSE heap
           result1 == IF padding # 0 THEN Append(result, Len(heap1)) ELSE result
           paddings1 == IF padding # 0 THEN paddings + 1 ELSE paddings
       IN StructBuilder_by_type_loop(heap1, Tail(todo), Append(result1, field),
            paddings1, offset + type_size(heap[field].type) + padding)

StructBuilder_align_fields_by_type(heap, self) ==
  LET r == StructBuilder_by_type_loop(heap, self._fields, <<>>, 0, 0)
  IN Done(r.heap, [self EXCEPT !._fields = r.result])

\* _pad_format.format("") names the trailing padding
StructBuilder_pad_to_alignment(heap, self, alignment) ==
  LET padding == StructBuilder_get_padding(alignment, self._size)
  IN IF StructBuilder_is_dynamic_size(self) THEN Done(heap, self)
     ELSE IF padding # 0
     THEN Done(Append(heap, FieldInfo("__pad___", Padding_getitem(padding, 0), FieldFlags_NONE)),
               [self EXCEPT !._fields = Append(@, Len(heap) + 1)])
     ELSE Done(heap, self)

\* max(field.type.alignment for field in self._fields)
max_alignment(heap, fields) ==
  CHOOSE m \in {type_alignment(heap[fields[i]].type) : i \in 1..Len(fields)} :
    \A i \in 1..Len(fields) : type_alignment(heap[fields[i]].type) <= m

StructBuilder_align_fields(heap, self, alignment) ==
  IF self._fields = <<>> \/ self._has_dynamic_fields THEN Done(heap, self)
  ELSE IF alignment # None /\ alignment # 0
  THEN LET a == StructBuilder_align_fields_by_alignment(heap, self, alignment)
       IN StructBuilder_pad_to_alignment(a.heap, a.self, alignment)
  ELSE LET a == StructBuilder_align_fields_by_type(heap, self)
       IN StructBuilder_pad_to_alignment(a.heap, a.self, max_alignment(a.heap, a.self._fields))

\* a sort that puts a field before the fields of its own size
RECURSIVE insert_by_size_unstable(_, _, _)
insert_by_size_unstable(heap, sorted, f) ==
  IF sorted = <<>> THEN <<f>>
  ELSE IF type_size(heap[Head(sorted)].type) > type_size(heap[f].type)
       THEN <<Head(sorted)>> \o insert_by_size_unstable(heap, Tail(sorted), f)
       ELSE <<f>> \o sorted

\* sorted(fields, key=size, reverse=True): stable, larger sizes first
RECURSIVE insert_by_size(_, _, _)
insert_by_size(heap, sorted, f) ==
  IF sorted = <<>> THEN <<f>>
  ELSE IF type_size(heap[Head(sorted)].type) >= type_size(heap[f].type)
       THEN <<Head(sorted)>> \o insert_by_size(heap, Tail(sorted), f)
       ELSE <<f>> \o sorted

RECURSIVE sorted_by_size(_, _, _)
sorted_by_size(heap, todo, acc) ==
  IF todo = <<>> THEN acc
  ELSE sorted_by_size(heap, Tail(todo), insert_by_size(heap, acc, Head(todo)))

StructBuilder_reorder_fields(heap, self) ==
  LET dyn(f) == type_is_dynamic_size(heap[f].type)
      fix(f) == ~type_is_dynamic_size(heap[f].type)
      sized_fields == SelectSeq(self._fields, fix)
      dynamic_fields == SelectSeq(self._fields, dyn)
  IN Done(heap, [self EXCEPT !._fields = sorted_by_size(heap, sized_fields, <<>>) \o dynamic_fields])

RECURSIVE recalculate_offsets_loop(_, _, _)
recalculate_offsets_loop(heap, todo, offset) ==
  IF todo = <<>> THEN heap
  ELSE recalculate_offsets_loop([heap EXCEPT ![Head(todo)].offset = offset], Tail(todo),
                                offset + type_size(heap[Head(todo)].type))

StructBuilder_recalculate_offsets(heap, self) ==
  Done(recalculate_offsets_loop(heap, self._fields, 0), self)

RECURSIVE sum_sizes(_, _)
sum_sizes(heap, fields) ==
  IF fields = <<>> THEN 0 ELSE type_size(heap[Head(fields)].type) + sum_sizes(heap, Tail(fields))

\* a build that leaves the size as it was
StructBuilder_recalculate_size_skipped(heap, self) == Done(heap, self)

StructBuilder_recalculate_size(heap, self) ==
  IF self._has_dynamic_fields THEN Done(heap, [self EXCEPT !._size = -1])
  ELSE Done(heap, [self EXCEPT !._size = sum_sizes(heap, self._fields)])

\* build(): the returned list is self._fields of the outcome
StructBuilder_build(heap, self) ==
  LET o == StructBuilder_recalculate_offsets(heap, self)
  IN StructBuilder_recalculate_size(o.heap, o.self)

\* ------------------------------------------------------------------------
\* struct_builder.py: FixedStructBuilder.  _fields is an insertion-ordered
\* dict name -> FieldInfo, modelled as the list of its values (identities);
\* the key of an entry is the name of its FieldInfo.
\* ------------------------------------------------------------------------
\* type != type on class objects: two classes are equal only if they are the
\* same object
types_differ(t1, t2) == t1 # t2

fdict_index(heap, d, k) ==
  IF \E i \in 1..Len(d) : heap[d[i]].name = k
  THEN CHOOSE i \in 1..Len(d) : heap[d[i]].name = k
  ELSE 0

\* self._fields[name] = field
fdict_setitem(heap, d, field) ==
  IF fdict_index(heap, d, heap[field].name) # 0
  THEN [d EXCEPT ![fdict_index(heap, d, heap[field].name)] = field]
  ELSE Append(d, field)

RECURSIVE fdict_from_list(_, _, _)
\* {field.name: field for field in result}
fdict_from_list(heap, result, acc) ==
  IF result = <<>> THEN acc
  ELSE fdict_from_list(heap, Tail(result), fdict_setitem(heap, acc, Head(result)))

FixedStructBuilder_init(flags) ==
  [cls |-> "FixedStructBuilder", _fields |-> <<>>, _size |-> 0,
   _alignment |-> IF BitAnd(flags, AlignAuto) = 0
                  THEN ShiftLeft1(BitAnd(flags, AlignmentMask))
                  ELSE 0,
   _flags |-> flags]

\* add_field(field: str, typ, allow_overwrite, force_safe_overwrite)
FixedStructBuilder_add_field(heap, self, name, typ, allow_overwrite, force_safe_overwrite) ==
  LET i == fdict_index(heap, self._fields, name)
      heap1 == Append(heap, FieldInfo(name, typ, FieldFlags_NONE))
  IN IF type_is_dynamic_size(typ) THEN Fail(heap, self, "ValueError")
     ELSE IF i # 0 /\ ~allow_overwrite THEN Fail(heap, self, "ValueError")
     ELSE IF i # 0 /\ force_safe_overwrite /\ types_differ(heap[self._fields[i]].type, typ)
          THEN Fail(heap, self, "ValueError")
     ELSE Done(heap1, [self EXCEPT !._fields = fdict_setitem(heap1, @, Len(heap1))])

FixedStructBuilder_get_padding(alignment, offset) == BitAnd(0 - offset, alignment - 1)

FixedStructBuilder_pad_name(n) == "<padding>_" \o ToString(n)

\* issubclass(field.type, Primitive)
is_Primitive_subclass(t) == t.kind \in {"Primitive", "Padding", "Pointer", "Reference"}

RECURSIVE FixedStructBuilder_by_alignment_loop(_, _, _, _, _, _, _)
FixedStructBuilder_by_alignment_loop(heap, todo, result, paddings, offset, largest_field, alignment) ==
  IF todo = <<>>
  THEN [heap |-> heap, result |-> result, offset |-> offset, largest_field |-> largest_field]
  ELSE LET field == Head(todo)
           padding == FixedStructBuilder_get_padding(alignment, offset)
           heap1 == IF padding # 0
                    THEN Append(heap, FieldInfo(FixedStructBuilder_pad_name(paddings),
                                                Padding_getitem(padding, 0), FieldFlags_NONE))
                    ELSE heap
           result1 == IF padding # 0 THEN Append(result, Len(heap1)) ELSE result
           paddings1 == IF padding # 0 THEN paddings + 1 ELSE paddings
           sz == type_size(heap[field].type)
           largest1 == IF is_Primitive_subclass(heap[field].type)
                       THEN Max(largest_field, sz)
                       ELSE largest_field
       IN FixedStructBuilder_by_alignment_loop(heap1, Tail(todo), Append(result1, field),
            paddings1, offset + sz + padding, largest1, alignment)

RECURSIVE FixedStructBuilder_by_type_loop(_, _, _, _, _, _)
FixedStructBuilder_by_type_loop(heap, todo, result, paddings, offset, largest_field) ==
  IF todo = <<>>
  THEN [heap |-> heap, result |-> result, offset |-> offset, largest_field |-> largest_field]
  ELSE LET field == Head(todo)
           padding == FixedStructBuilder_get_padding(type_alignment(heap[field].type), offset)
           heap1 == IF padding # 0
                    THEN Append(heap, FieldInfo(FixedStructBuilder_pad_name(paddings),
                                                Padding_getitem(padding, 0), FieldFlags_NONE))
                    ELSE heap
           result1 == IF padding # 0 THEN Append(result, Len(heap1)) ELSE result
           paddings1 == IF padding # 0 THEN paddings + 1 ELSE paddings
           sz == type_size(heap[field].type)
           largest1 == IF is_Primitive_subclass(heap[field].type)
                       THEN Max(largest_field, sz)
                       ELSE largest_field
       IN FixedStructBuilder_by_type_loop(heap1, Tail(todo), Append(result1, field),
            paddings1, offset + sz + padding, largest1)

\* the tail of align_fields: size, dict rebuild, rounding up to largest_field
FixedStructBuilder_round_size(self, r) ==
  LET self1 == [self EXCEPT !._size = r.offset,
                            !._fields = fdict_from_list(r.heap, r.result, <<>>)]
  IN IF self1._size = 0 THEN Done(r.heap, self1)
     ELSE IF r.largest_field = 0 THEN Fail(r.heap, self1, "ZeroDivisionError")
     ELSE IF self1._size % r.largest_field # 0
     THEN Done(r.heap, [self1 EXCEPT !._size = @ + (r.largest_field - (@ % r.largest_field))])
     ELSE Done(r.heap, self1)

FixedStructBuilder_align_fields(heap, self, alignment) ==
  LET a == IF alignment = None THEN self._alignment ELSE alignment
  IN IF a # 0
     THEN FixedStructBuilder_round_size(self,
            FixedStructBuilder_by_alignment_loop(heap, self._fields, <<>>, 0, 0, 0, a))
     ELSE FixedStructBuilder_round_size(self,
            FixedStructBuilder_by_type_loop(heap, self._fields, <<>>, 0, 0, 0))

\* fields grouped by size, groups in decreasing size, insertion order inside
\* a group; each field gets its offset
FixedStructBuilder_reorder_fields(heap, self) ==
  LET result == sorted_by_size(heap, self._fields, <<>>)
  IN Done(recalculate_offsets_loop(heap, result, 0),
          [self EXCEPT !._size = sum_sizes(heap, result),
                       !._fields = fdict_from_list(heap, result, <<>>)])

FixedStructBuilder_recalculate_alignments(heap, self) ==
  Done(recalculate_offsets_loop(heap, self._fields, 0), self)

\* build(): the returned dict is self._fields of the outcome
FixedStructBuilder_build(heap, self) == FixedStructBuilder_recalculate_alignments(heap, self)

\* ------------------------------------------------------------------------
\* State
\* ------------------------------------------------------------------------
VARIABLES
  \* struct class and instance (quickstruct.py)
  B_fields,   \* __fields__ of the base class B (empty: the base is DataStruct)
  T_fields,   \* __fields__ of the declared struct class T(B)
  x,          \* the instance under construction, NoInstance before it
  wire,       \* outcome of x.to_bytes(), NoCall before the call
  back,       \* outcome of T.from_bytes(wire), NoCall before the call
  backB,      \* outcome of B.from_bytes(wire), NoCall before the call
  cexc,       \* exception of the last constructor call, "none" otherwise
  lastset,    \* the last checked assignment: [args, exc]
  short,      \* outcome of T.from_bytes on the first n bytes of wire: [n, out]
  \* layout builder (struct_builder.py)
  heap,       \* the FieldInfo objects, by identity
  builder,    \* the builder object
  last,       \* the last call made on the builder: [op, arg, exc]
  prev,       \* the call before it
  nadds,      \* calls of add_field so far
  naligns,    \* calls of align_fields so far
  nreorders,  \* calls of reorder_fields so far
  nbuilds,    \* calls of build so far
  returned,   \* the list (dict) object the last build() returned
  \* struct declarations
  classes,    \* the struct classes declared so far, in declaration order
  attempt     \* the last declaration: [bases, annotations, flags, exc]

codecVars == <<B_fields, T_fields, x, wire, back, backB, cexc, lastset, short>>
builderVars == <<heap, builder, last, prev, nadds, naligns, nreorders, nbuilds, returned>>
declVars == <<classes, attempt>>
vars == <<B_fields, T_fields, x, wire, back, backB, cexc, lastset, short,
          heap, builder, last, prev, nadds, naligns, nreorders, nbuilds, returned,
          classes, attempt>>

NoInstance == [py |-> "no instance"]
NoCall == [ok |-> FALSE, exc |-> "not called"]
NoOp == [op |-> "none", arg |-> None, exc |-> "none"]
NoBuilder == [cls |-> "none"]
NoSet == [args |-> <<>>, exc |-> "not called"]
NoList == [built |-> FALSE]

CodecIdle ==
  /\ B_fields = <<>>
  /\ T_fields = <<>>
  /\ x = NoInstance
  /\ wire = NoCall
  /\ back = NoCall
  /\ backB = NoCall
  /\ cexc = "none"
  /\ lastset = NoSet
  /\ short = NoCall

NoAttempt == [bases |-> <<>>, annotations |-> <<>>, flags |-> 0, exc |-> "not attempted"]

DeclIdle ==
  /\ classes = <<>>
  /\ attempt = NoAttempt

BuilderIdle ==
  /\ heap = <<>>
  /\ builder = NoBuilder
  /\ last = NoOp
  /\ prev = NoOp
  /\ nadds = 0
  /\ naligns = 0
  /\ nreorders = 0
  /\ nbuilds = 0
  /\ returned = NoList

\* ------------------------------------------------------------------------
\* The layout builders as a state machine
\* ------------------------------------------------------------------------
MaxFields == 2      \* add_field calls on one builder
MaxCalls == 2       \* align_fields, reorder_fields and build calls on one builder

BuilderNames == {"a", "b"}
String3 == String_getitem(3, 1)
BuilderTypes == {i8, i32, String3, String}
AlignArgs == {None, 1, 2, 4, 8}
BuilderFlags == {Default, Align1Byte, Align2Bytes, Align4Bytes, Align8Bytes,
                 BitOr(AlignAuto, Align4Bytes)}

InitBuilder ==
  /\ CodecIdle
  /\ DeclIdle
  /\ heap = <<>>
  /\ builder \in {StructBuilder_init} \cup {FixedStructBuilder_init(f) : f \in BuilderFlags}
  /\ last = NoOp
  /\ prev = NoOp
  /\ nadds = 0
  /\ naligns = 0
  /\ nreorders = 0
  /\ nbuilds = 0
  /\ returned = NoList

ncalls == naligns + nreorders + nbuilds

\* what a caller reads in a list of FieldInfo objects: names and offsets
ListView(h, ids) ==
  [i \in 1..Len(ids) |-> [name |-> h[ids[i]].name, offset |-> h[ids[i]].offset]]

\* the call assigns a new list (dict) to self._fields instead of changing the
\* one it has
rebinds_fields(self, op) ==
  \/ op = "reorder_fields"
  \/ /\ op = "align_fields"
     /\ \/ self.cls = "FixedStructBuilder"
        \/ self._fields # <<>> /\ ~self._has_dynamic_fields

\* the object build() returned, after a call on self with outcome o: build
\* returns self._fields itself; while it is still the builder's own object
\* (shared) it holds what self._fields holds
returned_after(ret, self, o, op) ==
  IF op = "build"
  THEN [built |-> TRUE, shared |-> TRUE, ids |-> o.self._fields,
        view |-> ListView(o.heap, o.self._fields)]
  ELSE IF ~ret.built \/ ~ret.shared THEN ret
  ELSE IF rebinds_fields(self, op) THEN [ret EXCEPT !.shared = FALSE]
  ELSE [ret EXCEPT !.ids = o.self._fields]

\* the common effect of a call with outcome o
Called(o, op, arg) ==
  /\ heap' = o.heap
  /\ builder' = o.self
  /\ returned' = returned_after(returned, builder, o, op)
  /\ prev' = last
  /\ last' = [op |-> op, arg |-> arg, exc |-> o.exc]
  /\ UNCHANGED codecVars
  /\ UNCHANGED declVars

SB_add_field ==
  /\ builder.cls = "StructBuilder"
  /\ nadds < MaxFields
  /\ \E name \in BuilderNames, typ \in BuilderTypes :
       Called(StructBuilder_add_field(heap, builder, name, typ), "add_field", None)
  /\ nadds' = nadds + 1
  /\ UNCHANGED <<naligns, nreorders, nbuilds>>

SB_align_fields ==
  /\ builder.cls = "StructBuilder"
  /\ ncalls < MaxCalls
  /\ \E a \in AlignArgs :
       Called(StructBuilder_align_fields(heap, builder, a), "align_fields", a)
  /\ naligns' = naligns + 1
  /\ UNCHANGED <<nadds, nreorders, nbuilds>>

SB_reorder_fields ==
  /\ builder.cls = "StructBuilder"
  /\ ncalls < MaxCalls
  /\ Called(StructBuilder_reorder_fields(heap, builder), "reorder_fields", None)
  /\ nreorders' = nreorders + 1
  /\ UNCHANGED <<nadds, naligns, nbuilds>>

SB_build ==
  /\ builder.cls = "StructBuilder"
  /\ ncalls < MaxCalls
  /\ Called(StructBuilder_build(heap, builder), "build", None)
  /\ nbuilds' = nbuilds + 1
  /\ UNCHANGED <<nadds, naligns, nreorders>>

FSB_add_field ==
  /\ builder.cls = "FixedStructBuilder"
  /\ nadds < MaxFields
  /\ \E name \in BuilderNames, typ \in BuilderTypes, allow_overwrite \in BOOLEAN,
        force_safe_overwrite \in BOOLEAN :
       Called(FixedStructBuilder_add_field(heap, builder, name, typ, allow_overwrite,
                                           force_safe_overwrite), "add_field", None)
  /\ nadds' = nadds + 1
  /\ UNCHANGED <<naligns, nreorders, nbuilds>>

FSB_align_fields ==
  /\ builder.cls = "FixedStructBuilder"
  /\ ncalls < MaxCalls
  /\ \E a \in AlignArgs :
       Called(FixedStructBuilder_align_fields(heap, builder, a), "align_fields", a)
  /\ naligns' = naligns + 1
  /\ UNCHANGED <<nadds, nreorders, nbuilds>>

FSB_reorder_fields ==
  /\ builder.cls = "FixedStructBuilder"
  /\ ncalls < MaxCalls
  /\ Called(FixedStructBuilder_reorder_fields(heap, builder), "reorder_fields", None)
  /\ nreorders' = nreorders + 1
  /\ UNCHANGED <<nadds, naligns, nbuilds>>

FSB_build ==
  /\ builder.cls = "FixedStructBuilder"
  /\ ncalls < MaxCalls
  /\ Called(FixedStructBuilder_build(heap, builder), "build", None)
  /\ nbuilds' = nbuilds + 1
  /\ UNCHANGED <<nadds, naligns, nreorders>>

NextBuilder ==
  \/ SB_add_field
  \/ SB_align_fields
  \/ SB_reorder_fields
  \/ SB_build
  \/ FSB_add_field
  \/ FSB_align_fields
  \/ FSB_reorder_fields
  \/ FSB_build

SpecBuilder == InitBuilder /\ [][NextBuilder]_vars

\* ------------------------------------------------------------------------
\* Properties of the layout builders
\* ------------------------------------------------------------------------
NumFields == Len(builder._fields)
TypeAt(i) == heap[builder._fields[i]].type
OffsetAt(i) == heap[builder._fields[i]].offset
IsPaddingAt(i) == TypeAt(i).kind = "Padding"
AllFixedSize == \A i \in 1..NumFields : ~type_is_dynamic_size(TypeAt(i))

\* field 1 at offset 0, every other field right after its predecessor
Tiled ==
  \A i \in 1..NumFields :
    OffsetAt(i) = IF i = 1 THEN 0 ELSE OffsetAt(i - 1) + type_size(TypeAt(i - 1))

SizeIsSum == builder._size = sum_sizes(heap, builder._fields)

AlignedThenBuilt ==
  /\ last.op = "build"
  /\ prev.op = "align_fields"
  /\ prev.exc = "none"
  /\ naligns = 1
  /\ NumFields > 0
  /\ AllFixedSize

ExplicitMode == prev.arg \in {1, 2, 4, 8}
AutoMode == prev.arg = None /\ (builder.cls = "StructBuilder" \/ builder._alignment = 0)
\* the boundary the field at index i is to be aligned to
TargetAlignment(i) == IF ExplicitMode THEN prev.arg ELSE type_alignment(TypeAt(i))

\* C4: after align_fields(A), A in {1, 2, 4, 8}, and build(), every
\* non-padding field's offset is a multiple of A; after align_fields() in
\* auto mode and build(), it is a multiple of the field's own type alignment;
\* a padding field stands before a field exactly when the running offset is
\* not such a multiple, and its size is (-offset) & (alignment - 1).
C4_FieldAlignment ==
  (AlignedThenBuilt /\ (ExplicitMode \/ AutoMode)) =>
    /\ \A i \in 1..NumFields :
         ~IsPaddingAt(i) => OffsetAt(i) % TargetAlignment(i) = 0
    /\ \A i \in 1..(NumFields - 1) :
         IsPaddingAt(i) =>
           /\ ~IsPaddingAt(i + 1)
           /\ type_size(TypeAt(i)) # 0
           /\ type_size(TypeAt(i)) = BitAnd(0 - OffsetAt(i), TargetAlignment(i + 1) - 1)
           /\ OffsetAt(i) % TargetAlignment(i + 1) # 0

\* an explicit alignment that put a padding between two fields
C4_Witness ==
  /\ AlignedThenBuilt
  /\ ExplicitMode
  /\ prev.arg = 4
  /\ \E i \in 1..(NumFields - 1) : IsPaddingAt(i) /\ type_size(TypeAt(i)) = 3

\* add_field calls only, then align_fields, then build()
AddedAlignedBuilt ==
  /\ AlignedThenBuilt
  /\ nbuilds = 1
  /\ nreorders = 0

\* C5: after add_field calls, align_fields(A) and build() on a non-empty list
\* of fixed-size fields, the size is a multiple of A (A in {1, 2, 4, 8}), and
\* of the largest alignment of the fields' types in auto mode.
C5_TrailingPadding ==
  AddedAlignedBuilt =>
    /\ ExplicitMode => builder._size % prev.arg = 0
    /\ AutoMode => builder._size % max_alignment(heap, builder._fields) = 0

\* the boundary a flag names
NamedBoundary(flags) ==
  CASE flags = Align1Byte -> 1
    [] flags = Align2Bytes -> 2
    [] flags = Align4Bytes -> 4
    [] flags = Align8Bytes -> 8

\* C6: a FixedStructBuilder made with Align1Byte, Align2Bytes, Align4Bytes or
\* Align8Bytes (AlignAuto not set) aligns to exactly 1, 2, 4 or 8 bytes when
\* align_fields() is called without an argument, and to each field's own
\* alignment (_alignment 0) whenever AlignAuto is set.
C6_FlagsSelectBoundary ==
  (builder.cls = "FixedStructBuilder" /\ last.op = "align_fields" /\ last.arg = None) =>
    IF BitAnd(builder._flags, AlignAuto) # 0
    THEN builder._alignment = 0
    ELSE builder._flags \in {Align1Byte, Align2Bytes, Align4Bytes, Align8Bytes} =>
           builder._alignment = NamedBoundary(builder._flags)

\* ------------------------------------------------------------------------
\* Struct declaration with layout flags: class D(bases..., flags=F) with
\* annotations.  The flag handling follows the compilation algorithm of the
\* specification (inheritance check, override resolution, reorder, alignment,
\* offsets, size); replacing a dict entry, comparing two types, the protected
\* flag of a FieldInfo and the layout passes are those of the code above.
\* A class is the record [bases, annotations, flags, fields, size],
\* fields being its FieldInfo list without the synthetic paddings.
\* ------------------------------------------------------------------------
flag_set(flags, f) == BitAnd(flags, f) = f

\* the alignment argument a flag set stands for (None: per-field alignment)
decl_alignment(flags) ==
  IF flag_set(flags, AlignAuto) THEN None
  ELSE CASE BitAnd(flags, AlignmentMask) = Align2Bytes -> 2
         [] BitAnd(flags, AlignmentMask) = Align4Bytes -> 4
         [] BitAnd(flags, AlignmentMask) = Align8Bytes -> 8
         [] OTHER -> 1

RECURSIVE inherited_fields(_, _)
inherited_fields(registry, bases) ==
  IF bases = <<>> THEN <<>>
  ELSE registry[Head(bases)].fields \o inherited_fields(registry, Tail(bases))

declared_fields(annotations, flags) ==
  [i \in 1..Len(annotations) |->
     FieldInfo(annotations[i].name, annotations[i].type,
               IF flag_set(flags, Protected) THEN FieldFlags_Protected ELSE FieldFlags_NONE)]

RECURSIVE resolve_overrides_unchecked(_, _, _)
\* a resolution that never asks whether overriding is allowed
resolve_overrides_unchecked(fields, incoming, flags) ==
  IF incoming = <<>> THEN [ok |-> TRUE, val |-> fields]
  ELSE LET f == Head(incoming)
           i == dict_index(fields, f.name)
       IN IF i = 0 THEN resolve_overrides_unchecked(Append(fields, f), Tail(incoming), flags)
          ELSE IF is_protected(fields[i]) # 0 THEN Raise("UnoverridbaleFieldError")
          ELSE IF flag_set(flags, TypeSafeOverride) /\ types_differ(fields[i].type, f.type)
               THEN Raise("UnsafeOverrideError")
          ELSE resolve_overrides_unchecked(dict_setitem(fields, f.name, f), Tail(incoming), flags)

RECURSIVE resolve_overrides(_, _, _)
resolve_overrides(fields, incoming, flags) ==
  IF incoming = <<>> THEN [ok |-> TRUE, val |-> fields]
  ELSE LET f == Head(incoming)
           i == dict_index(fields, f.name)
       IN IF i = 0 THEN resolve_overrides(Append(fields, f), Tail(incoming), flags)
          ELSE IF is_protected(fields[i]) # 0 THEN Raise("UnoverridbaleFieldError")
          ELSE IF flag_set(flags, TypeSafeOverride) /\ types_differ(fields[i].type, f.type)
               THEN Raise("UnsafeOverrideError")
          ELSE IF ~flag_set(flags, AllowOverride) THEN Raise("OverrideError")
          ELSE resolve_overrides(dict_setitem(fields, f.name, f), Tail(incoming), flags)

RECURSIVE add_all(_, _, _)
\* builder.add_field(field) for the FieldInfo objects n, n + 1, ... of h
add_all(h, self, n) ==
  IF n > Len(h) THEN Done(h, self)
  ELSE add_all(h, StructBuilder_add_field_info(h, self, n).self, n + 1)

\* f(v) for the one value v of S: v is computed once, however often f uses it
with_value(S, f(_)) == CHOOSE r \in {f(v) : v \in S} : TRUE

\* reorder, align, build on the resolved fields
compile_layout(resolved, flags) ==
  with_value({add_all(resolved, StructBuilder_init, 1)}, LAMBDA b0 :
    with_value({IF flag_set(flags, ReorderFields)
                THEN StructBuilder_reorder_fields(b0.heap, b0.self)
                ELSE b0}, LAMBDA b1 :
      with_value({IF flag_set(flags, NoAlignment)
                  THEN b1
                  ELSE StructBuilder_align_fields(b1.heap, b1.self, decl_alignment(flags))},
                 LAMBDA b2 : StructBuilder_build(b2.heap, b2.self))))

\* an inheritance check that looks at the first base only
any_final_first_base(registry, bases) ==
  bases # <<>> /\ flag_set(registry[bases[1]].flags, Final)

any_final(registry, bases) ==
  \E i \in 1..Len(bases) : flag_set(registry[bases[i]].flags, Final)

\* the class a compiled layout makes: its user fields in layout order, its size
struct_class(bases, annotations, flags, resolved, built) ==
  LET user(id) == id <= Len(resolved)
  IN with_value({SelectSeq(built.self._fields, user)}, LAMBDA ids :
       [bases |-> bases, annotations |-> annotations, flags |-> flags,
        fields |-> [i \in 1..Len(ids) |-> built.heap[ids[i]]],
        size |-> built.self._size])

compile_struct(bases, annotations, flags, resolved) ==
  IF ~resolved.ok THEN resolved
  ELSE with_value({compile_layout(resolved.val, flags)}, LAMBDA built :
         IF flag_set(flags, FixedSize) /\ built.self._size = -1 THEN Raise("SizeError")
         ELSE [ok |-> TRUE,
               val |-> struct_class(bases, annotations, flags, resolved.val, built)])

declare_struct(registry, bases, annotations, flags) ==
  IF any_final(registry, bases) THEN Raise("InheritanceError")
  ELSE with_value({resolve_overrides(<<>>,
                     inherited_fields(registry, bases) \o declared_fields(annotations, flags),
                     flags)},
                  LAMBDA resolved : compile_struct(bases, annotations, flags, resolved))

\* ------------------------------------------------------------------------
\* Declarations as a state machine
\* ------------------------------------------------------------------------
ClassNames == {"B", "C", "D"}
DeclNames == {"a", "b"}
\* two evaluations of String[10] are two classes
String10 == String_getitem(10, 1)
String10_again == String_getitem(10, 2)
\* String[2] on a class that is not String itself: a fixed array of two
\* length-prefixed strings
StringPair == _array(String, 2, 7)
DeclTypes(name) == IF name = "a" THEN {i8, String10, String10_again} ELSE {i8}
DeclFlags == {Default,
              BitClear(Default, AllowOverride),
              BitOr(TypeSafeOverride, AlignAuto),
              BitOr(Default, Protected),
              BitOr(Default, Final),
              BitOr(Default, FixedSize)}

OneAnnotation ==
  UNION {{<<[name |-> n, type |-> t]>> : t \in DeclTypes(n)} : n \in DeclNames}
\* class bodies: no field, one field, or the fields a: String[10] and b
Annotations ==
  {<<>>} \cup OneAnnotation
         \cup {<<[name |-> "a", type |-> String10]>> \o q :
                  q \in {r \in OneAnnotation : r[1].name = "b"}}

\* class bodies with one field whose type is, or holds, a length-prefixed type
SizedAnnotations == {<<[name |-> "b", type |-> t]>> : t \in {String, StringPair}}

\* a class statement: <<annotations, flags>>
ClassBodies ==
  (Annotations \X DeclFlags)
    \cup (SizedAnnotations \X {Default, BitOr(Default, FixedSize)})

NamesOf(fields) == {fields[i].name : i \in 1..Len(fields)}

RECURSIVE ancestors(_, _)
\* the classes c derives from, directly or not
ancestors(registry, c) ==
  UNION {{registry[c].bases[i]} \cup ancestors(registry, registry[c].bases[i]) :
           i \in 1..Len(registry[c].bases)}

\* no base, one base, or two unrelated bases without a common field name
BaseChoices(registry) ==
  {<<>>} \cup {<<i>> : i \in 1..Len(registry)}
         \cup {p \in (1..Len(registry)) \X (1..Len(registry)) :
                  /\ p[1] # p[2]
                  /\ p[1] \notin ancestors(registry, p[2])
                  /\ p[2] \notin ancestors(registry, p[1])
                  /\ NamesOf(registry[p[1]].fields)
                       \cap NamesOf(registry[p[2]].fields) = {}}

InitDecl ==
  /\ CodecIdle
  /\ BuilderIdle
  /\ classes = <<>>
  /\ attempt = NoAttempt

\* an exception raised by a class statement propagates and ends the script
Declare ==
  /\ attempt.exc \in {"not attempted", "none"}
  /\ Len(classes) < Cardinality(ClassNames)
  /\ \E bases \in BaseChoices(classes), body \in ClassBodies :
       \E r \in {declare_struct(classes, bases, body[1], body[2])} :
          /\ classes' = IF r.ok THEN Append(classes, r.val) ELSE classes
          /\ attempt' = [bases |-> bases, annotations |-> body[1], flags |-> body[2],
                         exc |-> IF r.ok THEN "none" ELSE r.exc]
  /\ UNCHANGED codecVars
  /\ UNCHANGED builderVars

NextDecl == Declare

SpecDecl == InitDecl /\ [][NextDecl]_vars

\* ------------------------------------------------------------------------
\* Properties of declarations
\* ------------------------------------------------------------------------
Succeeded == attempt.exc = "none"
Declared == classes[Len(classes)]
Inherited == inherited_fields(classes, attempt.bases)
Redeclared(i) == attempt.annotations[i].name \in NamesOf(Inherited)
Overrides == \E i \in 1..Len(attempt.annotations) : Redeclared(i)
NameList(fields) == [i \in 1..Len(fields) |-> fields[i].name]
IncomingNames == NameList(Inherited) \o NameList(attempt.annotations)

RECURSIVE original_positions(_)
\* each name once, where it first stands
original_positions(names) ==
  IF names = <<>> THEN <<>>
  ELSE LET init == original_positions(SubSeq(names, 1, Len(names) - 1))
           n == names[Len(names)]
       IN IF \E i \in 1..Len(init) : init[i] = n THEN init ELSE Append(init, n)

RECURSIVE later_positions(_)
\* each name once, where it last stands
later_positions(names) ==
  IF names = <<>> THEN <<>>
  ELSE LET rest == later_positions(Tail(names))
       IN IF \E i \in 1..Len(rest) : rest[i] = Head(names) THEN rest
          ELSE <<Head(names)>> \o rest

\* some base of the attempted declaration was declared with Final
FinalBaseAt(i) == BitAnd(classes[attempt.bases[i]].flags, Final) # 0
DerivesFromFinal == \E i \in 1..Len(attempt.bases) : FinalBaseAt(i)

HasDeclaredTypes ==
  \A i \in 1..Len(attempt.annotations) :
    \A j \in 1..Len(Declared.fields) :
      Declared.fields[j].name = attempt.annotations[i].name
        => Declared.fields[j].type = attempt.annotations[i].type

OverrideSucceeded ==
  /\ Succeeded
  /\ Overrides
  /\ ~flag_set(attempt.flags, ReorderFields)

SameTypeRedeclaration(registry, a) ==
  /\ Len(a.bases) = 1
  /\ ~any_final(registry, a.bases)
  /\ \E i \in 1..Len(a.annotations) :
       dict_index(registry[a.bases[1]].fields, a.annotations[i].name) # 0
  /\ \A i \in 1..Len(a.annotations) :
       LET g == dict_index(registry[a.bases[1]].fields, a.annotations[i].name)
       IN g # 0 => /\ registry[a.bases[1]].fields[g].type = a.annotations[i].type
                   /\ is_protected(registry[a.bases[1]].fields[g]) = 0

C8_Step ==
  SameTypeRedeclaration(classes, attempt') =>
    /\ attempt'.flags = Default =>
         /\ attempt'.exc = "none"
         /\ Len(classes') = Len(classes) + 1
         /\ \A i \in 1..Len(attempt'.annotations) :
              LET d == classes'[Len(classes')].fields
                  j == dict_index(d, attempt'.annotations[i].name)
              IN j # 0 /\ d[j].type = attempt'.annotations[i].type
    /\ attempt'.flags = BitClear(Default, AllowOverride) =>
         /\ attempt'.exc = "OverrideError"
         /\ classes' = classes

\* C8: redeclaring a base's field with the same type succeeds under the
\* default flags and the derived struct's field has that type; with
\* AllowOverride cleared the same declaration raises OverrideError and no
\* struct is created.
C8_OverridePermission == [][C8_Step]_vars

\* a redeclaration that succeeded under the default flags fails with
\* AllowOverride cleared
C8_Witness ==
  /\ attempt.exc = "OverrideError"
  /\ attempt.flags = BitClear(Default, AllowOverride)
  /\ SameTypeRedeclaration(classes, attempt)
  /\ \E c \in 1..Len(classes) :
       /\ classes[c].bases = attempt.bases
       /\ classes[c].annotations = attempt.annotations
       /\ classes[c].flags = Default

\* two types are equal as types: same kind, format, length and element type,
\* whichever evaluation of the subscript made them
same_structure(t1, t2) == [t1 EXCEPT !.oid = 0] = [t2 EXCEPT !.oid = 0]

TypeSafeRedeclaration ==
  /\ flag_set(attempt.flags, TypeSafeOverride)
  /\ Len(attempt.bases) = 1
  /\ ~DerivesFromFinal
  /\ Overrides
  /\ \A i \in 1..Len(attempt.annotations) :
       Redeclared(i) =>
         is_protected(Inherited[dict_index(Inherited, attempt.annotations[i].name)]) = 0

SomeTypeChanged ==
  \E i \in 1..Len(attempt.annotations) :
    /\ Redeclared(i)
    /\ ~same_structure(Inherited[dict_index(Inherited, attempt.annotations[i].name)].type,
                       attempt.annotations[i].type)

\* C9: under TypeSafeOverride a redeclaration fails with UnsafeOverrideError
\* exactly when the new type is not equal to the inherited field's type, type
\* equality being structural (two String[10] are equal); otherwise it succeeds.
C9_TypeSafeOverride ==
  TypeSafeRedeclaration =>
    /\ (attempt.exc = "UnsafeOverrideError") <=> SomeTypeChanged
    /\ ~SomeTypeChanged => Succeeded

ProtectedFieldsFlagged ==
  \A c \in 1..Len(classes) :
    flag_set(classes[c].flags, Protected) =>
      \A i \in 1..Len(classes[c].annotations) :
        \E j \in 1..Len(classes[c].fields) :
          /\ classes[c].fields[j].name = classes[c].annotations[i].name
          /\ BitAnd(classes[c].fields[j].flags, FieldFlags_Protected) # 0

RECURSIVE ancestors_of_bases(_, _)
ancestors_of_bases(registry, bases) ==
  IF bases = <<>> THEN {}
  ELSE {Head(bases)} \cup ancestors(registry, Head(bases))
                     \cup ancestors_of_bases(registry, Tail(bases))

\* annotation i of the attempted declaration names a field that a Protected
\* ancestor declared
RedeclaresProtected(i) ==
  \E c \in ancestors_of_bases(classes, attempt.bases) :
    /\ flag_set(classes[c].flags, Protected)
    /\ \E k \in 1..Len(classes[c].annotations) :
         attempt.annotations[i].name = classes[c].annotations[k].name

\* annotation i is the first one to name an inherited field
FirstRedeclared(i) == Redeclared(i) /\ \A j \in 1..(i - 1) : ~Redeclared(j)

Attempted == attempt.exc # "not attempted"

C11_FinalStructs ==
  /\ (Attempted /\ DerivesFromFinal) => attempt.exc = "InheritanceError"
  /\ \A c \in 1..Len(classes) :
       \A i \in 1..Len(classes[c].bases) :
         BitAnd(classes[classes[c].bases[i]].flags, Final) = 0

\* two bases, the Final one second, the class body adding a new field
C11_Witness ==
  /\ attempt.exc = "InheritanceError"
  /\ Len(attempt.bases) = 2
  /\ ~FinalBaseAt(1)
  /\ FinalBaseAt(2)
  /\ classes[attempt.bases[1]].fields # <<>>
  /\ attempt.annotations # <<>>
  /\ Len(classes) = 2

RECURSIVE length_depends_on_value(_)
\* the encoded length of a value of type t depends on the value
length_depends_on_value(t) ==
  CASE t.kind = "String" -> t.length = 0
    [] t.kind = "Array" -> t.length = 0 \/ length_depends_on_value(t.elem)
    [] OTHER -> FALSE

\* the types of the fields the attempted declaration asks for
AttemptedTypes ==
  {attempt.annotations[i].type : i \in 1..Len(attempt.annotations)}
    \cup {Inherited[j].type :
            j \in {k \in 1..Len(Inherited) :
                     Inherited[k].name \notin NamesOf(attempt.annotations)}}

\* a declaration under Default | FixedSize that passes the inheritance check
\* and the override resolution
FixedSizeAttempt ==
  /\ Attempted
  /\ attempt.flags = BitOr(Default, FixedSize)
  /\ ~DerivesFromFinal
  /\ \A i \in 1..Len(attempt.annotations) : ~RedeclaresProtected(i)

\* C12: a declared struct's size is -1 exactly when one of its fields has a
\* type whose encoded length depends on the value (String, Array[E], or a
\* fixed array of such elements); a declaration with FixedSize raises
\* SizeError exactly in that case and succeeds otherwise.
C12_DynamicSize ==
  /\ \A c \in 1..Len(classes) :
       (classes[c].size = -1) <=>
         \E i \in 1..Len(classes[c].fields) :
           length_depends_on_value(classes[c].fields[i].type)
  /\ FixedSizeAttempt =>
       IF \E t \in AttemptedTypes : length_depends_on_value(t)
       THEN attempt.exc = "SizeError"
       ELSE Succeeded

\* ------------------------------------------------------------------------
\* A struct class, an instance, its bytes and the instance read back
\* (quickstruct.py: DataStruct)
\* ------------------------------------------------------------------------
MaxStructFields == 2

String2 == String_getitem(2, 3)
i16x2 == _array(i16, 2, 4)
ptr_i8 == _pointer(i8, 5)
Padding1 == Padding_getitem(1, 6)
ref_String == _reference(String, 8)
CodecTypes == {i8, i16, char, String2, String, i16x2, ptr_i8, ref_String, Padding1}
CodecNames == <<"a", "b", "c">>

\* values a script may hand to a field of type t
ValuesFor(t) ==
  CASE t.kind = "Primitive" /\ t.pytype = "int" -> {PyInt(0 - 1), PyInt(300), PyStr(<<97>>)}
    [] t.kind = "Primitive" /\ t.pytype = "bytes" -> {PyBytes(<<97>>), PyBytes(<<97, 98>>)}
    [] t.kind = "String" -> {PyStr(<<97>>), PyStr(<<97, 98>>), PyStr(<<233>>), PyInt(300)}
    [] t.kind = "Array" -> {PyList(<<PyInt(1), PyInt(0 - 2)>>), PyList(<<PyInt(1)>>)}
    [] t.kind \in {"Pointer", "Reference"} -> {PyInt(44), PyInt(300)}
    [] OTHER -> {PyNone}

RECURSIVE AnnotationsOf(_)
\* the class bodies with n annotated fields, named a, b, ... in source order
AnnotationsOf(n) ==
  IF n = 0 THEN {<<>>}
  ELSE {Append(p[1], [name |-> CodecNames[n], type |-> p[2]]) :
          p \in AnnotationsOf(n - 1) \X CodecTypes}

RECURSIVE KwargsFor(_)
\* keyword arguments for some of the fields, in field order
KwargsFor(fields) ==
  IF fields = <<>> THEN {<<>>}
  ELSE KwargsFor(Tail(fields)) \cup
       {<<[name |-> Head(fields).name, value |-> p[1]]>> \o p[2] :
          p \in ValuesFor(Head(fields).type) \X KwargsFor(Tail(fields))}

InitCodec ==
  /\ CodecIdle
  /\ BuilderIdle
  /\ DeclIdle

\* class B(DataStruct): the first k fields; class T(B): the fields after them
\* (k = 0: class T(DataStruct))
T_declare ==
  /\ T_fields = <<>>
  /\ \E n \in 1..MaxStructFields : \E annotations \in AnnotationsOf(n) : \E k \in 0..n :
       \E base \in {DataStruct_init_subclass(<<>>, SubSeq(annotations, 1, k))} :
         /\ B_fields' = base
         /\ T_fields' = DataStruct_init_subclass(<<base>>, SubSeq(annotations, k + 1, n))
  /\ UNCHANGED <<x, wire, back, backB, cexc, lastset, short>>
  /\ UNCHANGED builderVars
  /\ UNCHANGED declVars

\* x = T(**kwargs)
T_init ==
  /\ T_fields # <<>>
  /\ x = NoInstance
  /\ cexc = "none"
  /\ \E kwargs \in KwargsFor(T_fields) :
       LET r == DataStruct_init(T_fields, kwargs)
       IN /\ x' = IF r.ok THEN r.val ELSE x
          /\ cexc' = IF r.ok THEN "none" ELSE r.exc
          /\ lastset' = [args |-> kwargs, exc |-> IF r.ok THEN "none" ELSE r.exc]
  /\ UNCHANGED <<B_fields, T_fields, wire, back, backB, short>>
  /\ UNCHANGED builderVars
  /\ UNCHANGED declVars

\* x.name = value: plain attribute assignment, nothing is checked
x_setattr ==
  /\ x # NoInstance
  /\ wire = NoCall
  /\ \E i \in 1..Len(T_fields) : \E value \in ValuesFor(T_fields[i].type) :
       x' = [x EXCEPT ![T_fields[i].name] = value]
  /\ UNCHANGED <<B_fields, T_fields, wire, back, backB, cexc, lastset, short>>
  /\ UNCHANGED builderVars
  /\ UNCHANGED declVars

\* values of the wrong kind for every field type
OtherValues == {PyNone, PyFloat(42)}

\* x.name = value through the field's StructField descriptor
x_set_field ==
  /\ x # NoInstance
  /\ wire = NoCall
  /\ \E i \in 1..Len(T_fields) :
       \E value \in ValuesFor(T_fields[i].type) \cup OtherValues :
         \E r \in {StructField_set(T_fields[i].type, x, T_fields[i].name, value)} :
           /\ x' = IF r.ok THEN r.val ELSE x
           /\ lastset' = [args |-> <<[name |-> T_fields[i].name, value |-> value]>>,
                          exc |-> IF r.ok THEN "none" ELSE r.exc]
  /\ UNCHANGED <<B_fields, T_fields, wire, back, backB, cexc, short>>
  /\ UNCHANGED builderVars
  /\ UNCHANGED declVars

\* wire = x.to_bytes()
x_to_bytes ==
  /\ x # NoInstance
  /\ wire = NoCall
  /\ wire' = DataStruct_to_bytes(T_fields, x)
  /\ UNCHANGED <<B_fields, T_fields, x, back, backB, cexc, lastset, short>>
  /\ UNCHANGED builderVars
  /\ UNCHANGED declVars

\* back = T.from_bytes(wire)
T_from_bytes ==
  /\ wire.ok
  /\ back = NoCall
  /\ short = NoCall
  /\ back' = DataStruct_from_bytes(T_fields, wire.bytes)
  /\ UNCHANGED <<B_fields, T_fields, x, wire, backB, cexc, lastset, short>>
  /\ UNCHANGED builderVars
  /\ UNCHANGED declVars

\* backB = B.from_bytes(wire), after T.from_bytes(wire)
B_from_bytes ==
  /\ wire.ok
  /\ back # NoCall
  /\ backB = NoCall
  /\ B_fields # <<>>
  /\ backB' = DataStruct_from_bytes(B_fields, wire.bytes)
  /\ UNCHANGED <<B_fields, T_fields, x, wire, back, cexc, lastset, short>>
  /\ UNCHANGED builderVars
  /\ UNCHANGED declVars

\* short = T.from_bytes(wire[:n]) for some n below the length of wire,
\* instead of reading wire back whole
T_from_bytes_short ==
  /\ wire.ok
  /\ back = NoCall
  /\ short = NoCall
  /\ \E n \in 0..(Len(wire.bytes) - 1) :
       short' = [n |-> n, out |-> DataStruct_from_bytes(T_fields, SubSeq(wire.bytes, 1, n))]
  /\ UNCHANGED <<B_fields, T_fields, x, wire, back, backB, cexc, lastset>>
  /\ UNCHANGED builderVars
  /\ UNCHANGED declVars

NextCodec ==
  \/ T_declare
  \/ T_init
  \/ x_setattr
  \/ x_set_field
  \/ x_to_bytes
  \/ T_from_bytes
  \/ B_from_bytes
  \/ T_from_bytes_short

SpecCodec == InitCodec /\ [][NextCodec]_vars

\* ------------------------------------------------------------------------
\* Properties of the byte codec
\* ------------------------------------------------------------------------
RECURSIVE Fits(_, _)
\* v is a value of type t: the type's instance check accepts it and it is in
\* the range of the field (an address for a pointer, nothing for a padding)
Fits(t, v) ==
  CASE t.kind = "Primitive" /\ t.pytype = "int" -> v.py = "int" /\ in_range(t.fmt, v.i)
    [] t.kind = "Primitive" /\ t.pytype = "bytes" -> v.py = "bytes" /\ Len(v.b) = 1
    [] t.kind = "String" ->
         /\ v.py = "str"
         /\ \A i \in 1..Len(v.s) : v.s[i] < 128
         /\ t.length # 0 => Len(v.s) <= t.length
    [] t.kind = "Array" ->
         /\ v.py = "list"
         /\ t.length # 0 => Len(v.l) = t.length
         /\ \A i \in 1..Len(v.l) : Fits(t.elem, v.l[i])
    [] t.kind \in {"Pointer", "Reference"} -> v.py = "int" /\ in_range(t.fmt, v.i)
    [] OTHER -> v = Unset

AllFit == \A i \in 1..Len(T_fields) : Fits(T_fields[i].type, x[T_fields[i].name])
FixedSizeStruct == \A i \in 1..Len(T_fields) : ~type_is_dynamic_size(T_fields[i].type)
UserField(i) == T_fields[i].type.kind # "Padding"
Serialized == wire # NoCall
ReadBack == wire.ok => back # NoCall

RECURSIVE sum_type_sizes(_)
sum_type_sizes(fields) ==
  IF fields = <<>> THEN 0 ELSE type_size(Head(fields).type) + sum_type_sizes(Tail(fields))

\* C1: a fixed-size struct whose fields all hold values of their types goes to
\* bytes and comes back with the same user fields, String[k] with a text
\* shorter than k, pointers and paddings included.
C1_RoundTrip ==
  (x # NoInstance /\ FixedSizeStruct /\ AllFit /\ Serialized /\ ReadBack) =>
    /\ wire.ok
    /\ back.ok
    /\ \A i \in 1..Len(T_fields) :
         UserField(i) => back.val[T_fields[i].name] = x[T_fields[i].name]

\* C2: the bytes of a fixed-size struct are as many as the sum of the size()
\* of its fields, arrays E[k] included.
C2_LengthIsSize ==
  (x # NoInstance /\ FixedSizeStruct /\ AllFit /\ wire.ok) =>
    Len(wire.bytes) = sum_type_sizes(T_fields)

RECURSIVE Accepts(_, _)
\* the value v is in the domain of the field type t
Accepts(t, v) ==
  CASE t.kind = "Primitive" -> v.py = t.pytype
    [] t.kind = "String" -> v.py = "str"
    [] t.kind = "Array" -> v.py = "list" /\ \A i \in 1..Len(v.l) : Accepts(t.elem, v.l[i])
    [] t.kind \in {"Pointer", "Reference"} -> v.py = "int"
    [] OTHER -> FALSE

TypeOfField(name) == T_fields[dict_index(T_fields, name)].type

\* a constructor call or an assignment whose arguments all name user fields
C13_Step ==
  (lastset' # lastset /\ \A i \in 1..Len(lastset'.args) :
                           TypeOfField(lastset'.args[i].name).kind # "Padding") =>
    IF \A i \in 1..Len(lastset'.args) :
         Accepts(TypeOfField(lastset'.args[i].name), lastset'.args[i].value)
    THEN /\ lastset'.exc = "none"
         /\ \A i \in 1..Len(lastset'.args) : x'[lastset'.args[i].name] = lastset'.args[i].value
    ELSE /\ lastset'.exc = "TypeError"
         /\ x' = x

\* C13: a constructor keyword argument or an assignment to a user field with
\* a value the field's type does not accept raises TypeError and leaves the
\* instance as it was; with accepted values the call completes and the fields
\* hold the values given.
C13_CheckedAssignment == [][C13_Step]_vars

SomeFieldUnset ==
  \E i \in 1..Len(T_fields) : UserField(i) /\ x[T_fields[i].name] = Unset

\* C14: to_bytes on an instance with a user field that was never assigned
\* raises the uninitialised-field ValueError, whatever the type of that field.
C14_UninitialisedField ==
  (x # NoInstance /\ Serialized /\ SomeFieldUnset) => wire = Raise("ValueError")

\* a struct with the single field a of type ptr[E] or ref[E], holding an address
OneAddressField ==
  /\ x # NoInstance
  /\ Len(T_fields) = 1
  /\ T_fields[1].type.kind \in {"Pointer", "Reference"}
  /\ x[T_fields[1].name].py = "int"
  /\ in_range("P", x[T_fields[1].name].i)

\* C15: an address in a ptr[E] or ref[E] field is written as the 8 bytes of
\* the integer, and reading them back consumes exactly these 8 bytes and
\* gives the same integer, whatever E is.
C15_AddressWord ==
  (OneAddressField /\ Serialized) =>
    /\ wire.ok
    /\ Len(wire.bytes) = 8
    /\ le_uint(wire.bytes) = x[T_fields[1].name].i
    /\ back # NoCall =>
         /\ back.ok
         /\ back.val[T_fields[1].name] = x[T_fields[1].name]
         /\ back.pos = 8

PaddingField(i) == T_fields[i].type.kind = "Padding"
HasPadding == \E i \in 1..Len(T_fields) : PaddingField(i)

\* every user field holds a value of its type that the codec of the type
\* brings back unchanged: integers and single bytes
PlainUserFields ==
  \A i \in 1..Len(T_fields) :
    UserField(i) =>
      /\ T_fields[i].type.kind = "Primitive"
      /\ Fits(T_fields[i].type, x[T_fields[i].name])

\* C16: a padding field of k bytes has size k and alignment 1, is written as
\* k zero bytes and is read back from k bytes by moving the cursor k bytes
\* on; a struct with a padding field is read back from its own bytes, with
\* the user fields assigned and the padding field left unassigned.
C16_PaddingCodec ==
  /\ \A i \in 1..Len(T_fields) :
       PaddingField(i) =>
         LET t == T_fields[i].type
             k == struct_size(t)
         IN /\ k >= 1
            /\ type_size(t) = k
            /\ type_alignment(t) = 1
            /\ type_to_bytes(t, PyNone) = Ok(zeros(k))
            /\ LET r == type_from_bytes(t, zeros(k), 0) IN r.ok /\ r.pos = k
  /\ (x # NoInstance /\ HasPadding /\ PlainUserFields /\ wire.ok /\ back # NoCall) =>
       /\ back.ok
       /\ \A i \in 1..Len(T_fields) :
            back.val[T_fields[i].name] =
              IF UserField(i) THEN x[T_fields[i].name] ELSE Unset

\* the field's type is E[k], an array of exactly k elements
FixedArrayField(i) == T_fields[i].type.kind = "Array" /\ T_fields[i].type.length # 0

\* C17: an array type E[k] has the size of k elements of E, or no fixed size
\* (-1) when E has none, and the alignment of E.
C17_FixedArraySize ==
  \A i \in 1..Len(T_fields) :
    FixedArrayField(i) =>
      LET t == T_fields[i].type
      IN /\ t.length >= 1
         /\ type_size(t) = IF type_is_dynamic_size(t.elem) THEN -1
                           ELSE t.length * type_size(t.elem)
         /\ type_alignment(t) = type_alignment(t.elem)

\* T is derived from a struct B with fields of its own and adds fields to
\* them, and x is an instance of T whose fields all hold values of their types
DerivedInstance ==
  /\ B_fields # <<>>
  /\ Len(T_fields) > Len(B_fields)
  /\ x # NoInstance
  /\ AllFit

\* C18: the fields of the base struct B are the first fields of the derived
\* struct T, in B's order; the bytes of an instance of T are read back by B
\* with B's fields as in the instance, and by T with all user fields as in
\* the instance.
C18_BasePrefix ==
  (DerivedInstance /\ wire.ok /\ backB # NoCall) =>
    /\ Len(B_fields) <= Len(T_fields)
    /\ B_fields = SubSeq(T_fields, 1, Len(B_fields))
    /\ backB.ok
    /\ \A i \in 1..Len(B_fields) :
         UserField(i) => backB.val[B_fields[i].name] = x[B_fields[i].name]
    /\ back.ok
    /\ \A i \in 1..Len(T_fields) :
         UserField(i) => back.val[T_fields[i].name] = x[T_fields[i].name]

\* C19: the list build() returned shows the same fields with the same names
\* and offsets, in the same order, after every later call on the builder.
C19_ImmutableLayout ==
  returned.built => ListView(heap, returned.ids) = returned.view

\* position of the FieldInfo object id in the list fields, 0 if it is not there
PositionIn(fields, id) ==
  IF \E i \in 1..Len(fields) : fields[i] = id
  THEN CHOOSE i \in 1..Len(fields) : fields[i] = id
  ELSE 0

DynamicField(id) == type_is_dynamic_size(heap[id].type)

\* one call of reorder_fields, from the builder's fields before it to the
\* fields after it
C20_Step ==
  (last'.op = "reorder_fields" /\ nreorders' = nreorders + 1) =>
    LET old == builder._fields
        new == builder'._fields
    IN /\ Len(new) = Len(old)
       /\ \A i \in 1..Len(old) :
            Cardinality({j \in 1..Len(new) : new[j] = old[i]}) = 1
       /\ \A i \in 1..Len(new) : heap'[new[i]].type = heap[new[i]].type
       /\ \A i, j \in 1..Len(new) :
            i < j =>
              /\ DynamicField(new[i]) => DynamicField(new[j])
              /\ (~DynamicField(new[i]) /\ ~DynamicField(new[j])) =>
                   type_size(heap[new[i]].type) >= type_size(heap[new[j]].type)
              /\ (type_size(heap[new[i]].type) = type_size(heap[new[j]].type)) =>
                   PositionIn(old, new[i]) < PositionIn(old, new[j])
       /\ (\A i \in 1..Len(old) : DynamicField(old[i])) => new = old
       /\ last.op = "reorder_fields" => new = old

\* C20: reorder_fields keeps every field of the builder exactly once, puts
\* the fixed-size fields first with larger sizes before smaller ones and
\* fields of one size in the order they had, puts the dynamic-size fields
\* after them in the order they had, leaves a list of dynamic-size fields
\* only as it is, and changes nothing when called again at once.
C20_Reordering == [][C20_Step]_vars

\* a reorder_fields call has moved a field declared later to the front
C20_Witness ==
  /\ last.op = "reorder_fields"
  /\ last.exc = "none"
  /\ Len(builder._fields) >= 2
  /\ builder._fields[1] > builder._fields[2]

\* every field is of a primitive, string or array type
PlainTypes ==
  \A i \in 1..Len(T_fields) : T_fields[i].type.kind \in {"Primitive", "String", "Array"}

\* C21: reading a struct from its own bytes cut off before the end raises
\* an error: no instance is built from the bytes that are there.
C21_ShortInput ==
  (short # NoCall /\ PlainTypes /\ AllFit) => ~short.out.ok

\* a struct with the single field a: String, holding a text
OneStringField ==
  /\ x # NoInstance
  /\ Len(T_fields) = 1
  /\ T_fields[1].type = String
  /\ x[T_fields[1].name].py = "str"

\* C22: a text in a length-prefixed String field is written as the 4 bytes
\* of the length n of its UTF-8 encoding followed by the n bytes of that
\* encoding, and is read back as the same text with the cursor after the
\* last of these bytes.
C22_StringWireFormat ==
  (OneStringField /\ Serialized) =>
    LET payload == str_encode(x[T_fields[1].name].s)
    IN /\ wire.ok
       /\ wire.bytes = le_bytes(Len(payload), 4) \o payload
       /\ back # NoCall =>
            /\ back.ok
            /\ back.val[T_fields[1].name] = x[T_fields[1].name]
            /\ back.pos = 4 + Len(payload)

\* what build() gives after a call with outcome o: the fields with their
\* names, types and offsets, and the size
LayoutBuilt(o) ==
  LET b == StructBuilder_build(o.heap, o.self)
  IN [fields |-> [i \in 1..Len(b.self._fields) |->
                    [name |-> b.heap[b.self._fields[i]].name,
                     type |-> b.heap[b.self._fields[i]].type,
                     offset |-> b.heap[b.self._fields[i]].offset]],
      size |-> b.self._size]

\* a StructBuilder that was given fixed-size fields and nothing else
FieldsAddedOnly ==
  /\ builder.cls = "StructBuilder"
  /\ ncalls = 0
  /\ AllFixedSize

\* C23: on a StructBuilder holding fixed-size fields, align_fields(A) and
\* build() give the same fields, offsets and size whether or not build() was
\* called before align_fields, and build() called twice in a row gives what
\* one build() gives.
C23_HistoryIndependence ==
  FieldsAddedOnly =>
    /\ \A A \in AlignArgs :
         LayoutBuilt(StructBuilder_align_fields(heap, builder, A)) =
           LET b == StructBuilder_build(heap, builder)
           IN LayoutBuilt(StructBuilder_align_fields(b.heap, b.self, A))
    /\ LayoutBuilt(StructBuilder_build(heap, builder)) = LayoutBuilt(Done(heap, builder))

\* the last call was align_fields on a FixedStructBuilder
FixedAligned == builder.cls = "FixedStructBuilder" /\ last.op = "align_fields"

\* C24: align_fields of a FixedStructBuilder raises nothing, for every target
\* alignment and every list of fields the builder accepts, lists without a
\* field of a primitive type included; on a builder without fields it leaves
\* the size 0.
C24_AlignCompletes ==
  FixedAligned =>
    /\ last.exc = "none"
    /\ builder._fields = <<>> => builder._size = 0

====
